---------------------------- MODULE Spec2Model ----------------------------
(***************************************************************************)
(* Model of src/hyprland.rs: the fullscreen watcher thread of the ticker.  *)
(* One background thread resolves the target monitor's id, seeds the       *)
(* visibility from an active-window query, reads Hyprland's event socket   *)
(* line by line, and after the stream ends sleeps, re-seeds and starts     *)
(* over.  The window manager (hyprctl, the event socket) is the            *)
(* environment.                                                            *)
(***************************************************************************)
EXTENDS Integers, Sequences, FiniteSets, TLC

(* ------------------------------ bounds -------------------------------- *)

\* How many of the most recent values sent on the channel are remembered.
MaxHist == 2
\* How many times in a row the monitor inventory query may fail.
MaxFails == 2
\* How many records a monitor inventory response holds at most.
MaxMonitors == 2
\* How many values the consumer lets wait in the channel: one more makes it
\* take the oldest.
MaxQueue == 1

(* ------------------------------ values -------------------------------- *)

Visible == "Visible"
Hidden == "Hidden"
TickerVisibility == {Visible, Hidden}

\* Option<T>: None is the empty tuple, Some(x) the one-element tuple.
None == << >>
Some(x) == << x >>

\* Monitor names and the integers hyprctl may report.
Names == {"DP-1", "HDMI-A-1"}
MonIds == {-1, 1, 2}
FsVals == {0, 1, 2}

\* How a hyprctl invocation ends: it cannot be launched, it exits non-zero,
\* its output is not JSON of the expected shape, or it answers.
Failures == {"launch_fail", "exit_nonzero", "bad_json"}

\* What `hyprctl activewindow -j` answers: on success an object whose
\* "fullscreen" and "monitor" fields are an integer or absent/not an integer.
AwFailed(s) == [status |-> s, fullscreen |-> None, monitor |-> None]
AwOk(f, m) == [status |-> "ok", fullscreen |-> f, monitor |-> m]
AwResponses ==
    {AwFailed(s) : s \in Failures}
    \cup {AwOk(f, m) : f \in {None} \cup {Some(x) : x \in FsVals},
                       m \in {None} \cup {Some(x) : x \in MonIds}}

\* What `hyprctl monitors -j` answers: on success a list of records whose
\* "name" is a string or absent and whose "id" is an integer or absent.
\* Names a monitor record may carry: the configured ones and near misses.
RecordNames == Names \cup {"DP-10"}
MonitorRecords ==
    [name : {None} \cup {Some(n) : n \in RecordNames},
     id   : {None} \cup {Some(i) : i \in MonIds}]
SeqsUpTo(S, n) == UNION {[1..k -> S] : k \in 0..n}
InvFailed(s) == [status |-> s, monitors |-> << >>]
InvOk(ms) == [status |-> "ok", monitors |-> ms]
InvResponses ==
    {InvFailed(s) : s \in Failures}
    \cup {InvOk(ms) : ms \in SeqsUpTo(MonitorRecords, MaxMonitors)}

\* Lines the event socket may deliver.
Lines == {"fullscreen>>1", "fullscreen>>0", "fullscreen>>", "fullscreen>>2",
          "fullscreen>>01",
          "activewindow>>kitty,term", "activewindow>>,", "focusedmon>>DP-1,1",
          "workspace>>3", "fullscreen"}

\* Values of the two environment variables.
SigValues == {None, Some("sig0")}
RuntimeValues == {None, Some("/run/user/1000")}

(* --------------------------- pure functions --------------------------- *)

StartsWith(s, p) == Len(s) >= Len(p) /\ SubSeq(s, 1, Len(p)) = p
EndsWith(s, p) == Len(s) >= Len(p) /\ SubSeq(s, Len(s) - Len(p) + 1, Len(s)) = p

\* Mutant of GetMonitorId: a record matches when its name begins with the
\* configured name.
GetMonitorId_Prefix(name, resp) ==
    IF resp.status # "ok" THEN None
    ELSE LET hits == {i \in 1..Len(resp.monitors) :
                        /\ resp.monitors[i].name # None
                        /\ StartsWith(resp.monitors[i].name[1], name)}
         IN IF hits = {} THEN None
            ELSE resp.monitors[CHOOSE i \in hits : \A j \in hits : i <= j].id

\* get_monitor_id: the id field of the first record named `name`.
GetMonitorId(name, resp) ==
    IF resp.status # "ok" THEN None
    ELSE LET hits == {i \in 1..Len(resp.monitors) :
                        resp.monitors[i].name = Some(name)}
         IN IF hits = {} THEN None
            ELSE resp.monitors[CHOOSE i \in hits : \A j \in hits : i <= j].id

\* What get_monitor_id(name) can return, over every inventory response.
ResolveOutcomes ==
    [n \in Names |-> {GetMonitorId(n, resp) : resp \in InvResponses}]

\* Mutant of GetActiveMonitorId: an absent monitor field defaults to -1, as
\* it does in is_fullscreen_on_monitor.
GetActiveMonitorId_Default(resp) ==
    IF resp.status # "ok" THEN None
    ELSE IF resp.monitor = None THEN Some(-1) ELSE resp.monitor

\* get_active_monitor_id: the monitor field of the active window.
GetActiveMonitorId(resp) ==
    IF resp.status # "ok" THEN None ELSE resp.monitor

\* Mutant of IsFullscreenOnMonitor: a failed query counts as fullscreen.
IsFullscreenOnMonitor_FailTrue(target_id, resp) ==
    IF resp.status # "ok" THEN TRUE
    ELSE LET is_fullscreen == IF resp.fullscreen = None THEN FALSE
                              ELSE resp.fullscreen[1] > 0
             monitor_id_ == IF resp.monitor = None THEN -1
                            ELSE resp.monitor[1]
         IN is_fullscreen /\ monitor_id_ = target_id

\* Mutant of IsFullscreenOnMonitor: the monitor is not compared.
IsFullscreenOnMonitor_AnyMonitor(target_id, resp) ==
    IF resp.status # "ok" THEN FALSE
    ELSE IF resp.fullscreen = None THEN FALSE
    ELSE resp.fullscreen[1] > 0

\* is_fullscreen_on_monitor
IsFullscreenOnMonitor(target_id, resp) ==
    IF resp.status # "ok" THEN FALSE
    ELSE LET is_fullscreen == IF resp.fullscreen = None THEN FALSE
                              ELSE resp.fullscreen[1] > 0
             monitor_id_ == IF resp.monitor = None THEN -1
                            ELSE resp.monitor[1]
         IN is_fullscreen /\ monitor_id_ = target_id

\* visibility_for_monitor
VisibilityForMonitor(target_id, resp) ==
    IF IsFullscreenOnMonitor(target_id, resp) THEN Hidden ELSE Visible

\* Mutant of GetEventSocketPath: an unset XDG_RUNTIME_DIR falls back to /tmp.
GetEventSocketPath_TmpRuntime(sig, runtime) ==
    IF sig = None THEN None
    ELSE IF runtime = None THEN Some("/tmp/hypr/" \o sig[1] \o "/.socket2.sock")
    ELSE Some(runtime[1] \o "/hypr/" \o sig[1] \o "/.socket2.sock")

\* get_event_socket_path
GetEventSocketPath(sig, runtime) ==
    IF sig = None THEN None
    ELSE IF runtime = None THEN None
    ELSE Some(runtime[1] \o "/hypr/" \o sig[1] \o "/.socket2.sock")

\* Mutant of LineEffect: "fullscreen>>0" probes the window state again
\* instead of sending Visible.
LineEffect_OffReprobes(l, target_id, resp) ==
    IF StartsWith(l, "fullscreen>>") THEN
        IF EndsWith(l, "1") THEN
            [query |-> "activewindow",
             send  |-> IF GetActiveMonitorId(resp) = Some(target_id)
                       THEN << Hidden >> ELSE << >>]
        ELSE [query |-> "activewindow",
              send  |-> << VisibilityForMonitor(target_id, resp) >>]
    ELSE IF StartsWith(l, "activewindow>>") \/ StartsWith(l, "focusedmon>>") THEN
        [query |-> "activewindow",
         send  |-> << VisibilityForMonitor(target_id, resp) >>]
    ELSE [query |-> "none", send |-> << >>]

\* Mutant of LineEffect: "fullscreen>>0" sends Visible only if the focused
\* window is on the target monitor, as "fullscreen>>1" does for Hidden.
LineEffect_OffChecksTarget(l, target_id, resp) ==
    IF StartsWith(l, "fullscreen>>") THEN
        IF GetActiveMonitorId(resp) = Some(target_id)
        THEN [query |-> "activewindow",
              send  |-> IF EndsWith(l, "1") THEN << Hidden >> ELSE << Visible >>]
        ELSE [query |-> "activewindow", send |-> << >>]
    ELSE IF StartsWith(l, "activewindow>>") \/ StartsWith(l, "focusedmon>>") THEN
        [query |-> "activewindow",
         send  |-> << VisibilityForMonitor(target_id, resp) >>]
    ELSE [query |-> "none", send |-> << >>]

\* Mutant of LineEffect: "focusedmon>>" lines are not acted on.
LineEffect_NoFocusedMon(l, target_id, resp) ==
    IF StartsWith(l, "fullscreen>>") THEN
        IF EndsWith(l, "1") THEN
            [query |-> "activewindow",
             send  |-> IF GetActiveMonitorId(resp) = Some(target_id)
                       THEN << Hidden >> ELSE << >>]
        ELSE [query |-> "none", send |-> << Visible >>]
    ELSE IF StartsWith(l, "activewindow>>") THEN
        [query |-> "activewindow",
         send  |-> << VisibilityForMonitor(target_id, resp) >>]
    ELSE [query |-> "none", send |-> << >>]

\* Mutant of LineEffect: the event name is matched without its ">>".
LineEffect_NameOnly(l, target_id, resp) ==
    IF StartsWith(l, "fullscreen") THEN
        IF EndsWith(l, "1") THEN
            [query |-> "activewindow",
             send  |-> IF GetActiveMonitorId(resp) = Some(target_id)
                       THEN << Hidden >> ELSE << >>]
        ELSE [query |-> "none", send |-> << Visible >>]
    ELSE IF StartsWith(l, "activewindow") \/ StartsWith(l, "focusedmon") THEN
        [query |-> "activewindow",
         send  |-> << VisibilityForMonitor(target_id, resp) >>]
    ELSE [query |-> "none", send |-> << >>]

\* Mutant of LineEffect: the conditional path is taken only when the
\* payload is "1".
LineEffect_PayloadIsOne(l, target_id, resp) ==
    IF StartsWith(l, "fullscreen>>") THEN
        IF l = "fullscreen>>1" THEN
            [query |-> "activewindow",
             send  |-> IF GetActiveMonitorId(resp) = Some(target_id)
                       THEN << Hidden >> ELSE << >>]
        ELSE [query |-> "none", send |-> << Visible >>]
    ELSE IF StartsWith(l, "activewindow>>") \/ StartsWith(l, "focusedmon>>") THEN
        [query |-> "activewindow",
         send  |-> << VisibilityForMonitor(target_id, resp) >>]
    ELSE [query |-> "none", send |-> << >>]

\* The body of event_loop's `for`: which hyprctl query the handling of one
\* line issues ("none" or "activewindow") and which values it sends.
LineEffect(l, target_id, resp) ==
    IF StartsWith(l, "fullscreen>>") THEN
        IF EndsWith(l, "1") THEN
            [query |-> "activewindow",
             send  |-> IF GetActiveMonitorId(resp) = Some(target_id)
                       THEN << Hidden >> ELSE << >>]
        ELSE [query |-> "none", send |-> << Visible >>]
    ELSE IF StartsWith(l, "activewindow>>") \/ StartsWith(l, "focusedmon>>") THEN
        [query |-> "activewindow",
         send  |-> << VisibilityForMonitor(target_id, resp) >>]
    ELSE [query |-> "none", send |-> << >>]

(* ------------------------------- state -------------------------------- *)

VARIABLES
    target_monitor,  \* watch_fullscreen's argument
    env_sig,         \* HYPRLAND_INSTANCE_SIGNATURE
    env_runtime,     \* XDG_RUNTIME_DIR
    activewindow,    \* what `hyprctl activewindow -j` answers right now
    pc,              \* where the watcher thread is
    monitor_id,      \* the loop's monitor_id binding (None before the first)
    line,            \* the line the stream reader holds (None: no line)
    loop_result,     \* what event_loop last returned (None: not returned)
    sent,            \* the last MaxHist values passed to sender.send
    emitted,         \* the values the watcher's latest step sent
    queried,         \* what the watcher's latest step called: a hyprctl
                     \* query, the socket's "connect", or "none"
    fails,           \* failed resolutions since the last successful one
    waits,           \* retry sleeps since the last successful resolution
    since_end,       \* which steps sent since the stream last ended (first 2)
    scenario,        \* progress through the end-to-end scenario
    receiver,        \* the channel's Receiver: "alive" or "dropped"
    queue,           \* the values in the channel, sent and not yet received
    received,        \* the value the consumer received last (None: none yet)
    inventory        \* what `hyprctl monitors -j` answers, where a
                     \* specification fixes it (None: any answer, each time)

vars == << target_monitor, env_sig, env_runtime, activewindow, pc, monitor_id,
           line, loop_result, sent, emitted, queried, fails, waits, since_end,
           scenario, receiver, queue, received, inventory >>

\* What no step of the watcher thread changes.
env_vars == << target_monitor, env_sig, env_runtime, receiver, inventory >>

\* The window of the last MaxHist values.
Push(s, v) ==
    LET t == Append(s, v)
    IN IF Len(t) > MaxHist THEN SubSeq(t, 2, Len(t)) ELSE t

RECURSIVE PushAll(_, _)
PushAll(s, vs) ==
    IF vs = << >> THEN s ELSE PushAll(Push(s, Head(vs)), Tail(vs))


\* What the consumer received last, after it received v.
Receive(rcv, v) == Some(v)

\* Mutant of Deliver: a value sent while another waits in the channel is
\* dropped, as try_send on a bounded channel would.
RECURSIVE Deliver_DropsWhenBusy(_, _, _)
Deliver_DropsWhenBusy(q, rcv, vs) ==
    IF vs = << >> THEN [queue |-> q, received |-> rcv]
    ELSE IF q # << >> THEN Deliver_DropsWhenBusy(q, rcv, Tail(vs))
    ELSE Deliver_DropsWhenBusy(Append(q, Head(vs)), rcv, Tail(vs))

\* sender.send of each of vs in order on the unbounded channel whose
\* Receiver is alive: the value joins the queue behind those waiting.  (A
\* consumer that lets at most MaxQueue values wait has by then taken the
\* oldest.)
RECURSIVE Deliver(_, _, _)
Deliver(q, rcv, vs) ==
    IF vs = << >> THEN [queue |-> q, received |-> rcv]
    ELSE LET q1 == Append(q, Head(vs))
         IN IF Len(q1) > MaxQueue
            THEN Deliver(Tail(q1), Receive(rcv, Head(q1)), Tail(vs))
            ELSE Deliver(q1, rcv, Tail(vs))

\* sender.send of each of vs with its result ignored (`let _ =`): with the
\* Receiver dropped the send returns Err and the value is gone.
Channel(rx, q, rcv, vs) ==
    IF rx = "alive" THEN Deliver(q, rcv, vs)
    ELSE [queue |-> << >>, received |-> rcv]

(* ------------------------- observation of a run ----------------------- *)

\* The end-to-end scenario of the specification, as the watcher's steps in
\* order: each with the step's name and the input it meets.
Script ==
    << [op |-> "resolve", arg |-> << "DP-1", Some(2) >>],
       [op |-> "seed",    arg |-> AwOk(Some(0), Some(-1))],
       [op |-> "connect", arg |-> TRUE],
       [op |-> "read",    arg |-> "fullscreen>>1"],
       [op |-> "handle",  arg |-> AwOk(Some(1), Some(2))],
       [op |-> "read",    arg |-> "fullscreen>>0"],
       [op |-> "handle",  arg |-> AwOk(Some(1), Some(2))] >>

\* Step k of the script is a step `op` meeting `arg` (the last step of the
\* script, handling "fullscreen>>0", may meet any window state).
Matches(k, op, arg) ==
    /\ Script[k].op = op
    /\ (k = Len(Script) \/ Script[k].arg = arg)

\* The scenario after a watcher step: stage k says that the latest k steps
\* of the watcher were the first k steps of the script, out what they sent.
ScenarioNext(sc, op, arg, sends) ==
    IF sc.stage < Len(Script) /\ Matches(sc.stage + 1, op, arg)
    THEN [stage |-> sc.stage + 1, out |-> sc.out \o sends]
    ELSE IF Matches(1, op, arg) THEN [stage |-> 1, out |-> sends]
    ELSE [stage |-> 0, out |-> << >>]

\* The steps that sent since event_loop last returned, the first two of them.
SinceEndNext(se, returned, op, sends, ret) ==
    IF ret # None THEN << >>
    ELSE IF returned = None \/ Len(se) >= 2 \/ sends = << >> THEN se
    ELSE Append(se, op)

\* What every step of the watcher thread does to the channel and to the
\* record of the run: `sends` go to sender.send in order, `query` is the
\* hyprctl query issued, `ret` is event_loop's return value if it returns.
Step(op, arg, sends, query, ret) ==
    /\ sent' = PushAll(sent, sends)
    /\ emitted' = sends
    /\ queried' = query
    /\ loop_result' = IF ret = None THEN loop_result ELSE ret
    /\ since_end' = SinceEndNext(since_end, loop_result, op, sends, ret)
    /\ scenario' = ScenarioNext(scenario, op, arg, sends)
    /\ queue' = Channel(receiver, queue, received, sends).queue
    /\ received' = Channel(receiver, queue, received, sends).received

(* ------------------------------ actions ------------------------------- *)

Init ==
    /\ target_monitor \in Names
    /\ env_sig \in SigValues
    /\ env_runtime \in RuntimeValues
    /\ activewindow \in AwResponses
    /\ pc = "resolve"
    /\ monitor_id = None
    /\ line = None
    /\ loop_result = None
    /\ sent = << >>
    /\ emitted = << >>
    /\ queried = "none"
    /\ fails = 0
    /\ waits = 0
    /\ since_end = << >>
    /\ scenario = [stage |-> 0, out |-> << >>]
    /\ receiver = "alive"
    /\ queue = << >>
    /\ received = None
    /\ inventory = None

\* Mutant of Resolve: a failed resolution is retried at once, without the
\* sleep.
Resolve_BusyRetry ==
    /\ pc = "resolve"
    /\ \E r \in ResolveOutcomes[target_monitor] :
            /\ (r = None => fails < MaxFails)
            /\ IF r = None
               THEN /\ pc' = "resolve"
                    /\ monitor_id' = monitor_id
                    /\ fails' = fails + 1
                    /\ waits' = waits
               ELSE /\ pc' = "seed"
                    /\ monitor_id' = r
                    /\ fails' = 0
                    /\ waits' = 0
            /\ Step("resolve", << target_monitor, r >>, << >>, "monitors", None)
    /\ UNCHANGED << env_vars, activewindow, line >>

\* watch_fullscreen, line 27: get_monitor_id(&target_monitor).
Resolve ==
    /\ pc = "resolve"
    /\ \E r \in ResolveOutcomes[target_monitor] :
            /\ (r = None => fails < MaxFails)
            /\ IF r = None
               THEN /\ pc' = "retry_sleep"
                    /\ monitor_id' = monitor_id
                    /\ fails' = fails + 1
                    /\ waits' = waits
               ELSE /\ pc' = "seed"
                    /\ monitor_id' = r
                    /\ fails' = 0
                    /\ waits' = 0
            /\ Step("resolve", << target_monitor, r >>, << >>, "monitors", None)
    /\ UNCHANGED << env_vars, activewindow, line >>

\* watch_fullscreen, lines 30-31: sleep 2 s and continue.
RetrySleep ==
    /\ pc = "retry_sleep"
    /\ pc' = "resolve"
    /\ waits' = waits + 1
    /\ Step("retry_sleep", None, << >>, "none", None)
    /\ UNCHANGED << env_vars, activewindow, monitor_id, line, fails >>

\* Mutant of Seed: the thread ends when the send fails (`if send(..).is_err()
\* { return }`).
Seed_StopsWhenDropped ==
    /\ pc = "seed"
    /\ pc' = IF receiver = "dropped" THEN "exit" ELSE "event_loop"
    /\ Step("seed", activewindow,
            << VisibilityForMonitor(monitor_id[1], activewindow) >>,
            "activewindow", None)
    /\ UNCHANGED << env_vars, activewindow, monitor_id, line, fails, waits >>

\* watch_fullscreen, line 36: send the initial state.
Seed ==
    /\ pc = "seed"
    /\ pc' = "event_loop"
    /\ Step("seed", activewindow,
            << VisibilityForMonitor(monitor_id[1], activewindow) >>,
            "activewindow", None)
    /\ UNCHANGED << env_vars, activewindow, monitor_id, line, fails, waits >>

\* event_loop, lines 129-133: derive the socket path and connect.
EventLoopConnect ==
    /\ pc = "event_loop"
    /\ IF GetEventSocketPath(env_sig, env_runtime) = None
       THEN /\ pc' = "sleep"
            /\ Step("connect", FALSE, << >>, "none",
                    Some("Err: Could not find Hyprland socket"))
       ELSE \E connected \in BOOLEAN :
              IF connected
              THEN /\ pc' = "read"
                   /\ Step("connect", TRUE, << >>, "connect", None)
              ELSE /\ pc' = "sleep"
                   /\ Step("connect", FALSE, << >>, "connect",
                           Some("Err: connect"))
    /\ line' = None
    /\ UNCHANGED << env_vars, activewindow, monitor_id, fails, waits >>

\* event_loop, lines 135-136: the reader yields the next line.
ReadLine ==
    /\ pc = "read"
    /\ \E l \in Lines :
         /\ line' = Some(l)
         /\ Step("read", l, << >>, "none", None)
    /\ pc' = "handle"
    /\ UNCHANGED << env_vars, activewindow, monitor_id, fails, waits >>

\* Mutant of ReadError: the read error ends the thread.
ReadError_Exits ==
    /\ pc = "read"
    /\ pc' = "exit"
    /\ line' = None
    /\ Step("read_error", None, << >>, "none", Some("Err: read"))
    /\ UNCHANGED << env_vars, activewindow, monitor_id, fails, waits >>

\* event_loop, line 136: the reader yields an error, `?` returns it.
ReadError ==
    /\ pc = "read"
    /\ pc' = "sleep"
    /\ line' = None
    /\ Step("read_error", None, << >>, "none", Some("Err: read"))
    /\ UNCHANGED << env_vars, activewindow, monitor_id, fails, waits >>

\* event_loop, lines 135 and 152: the stream ends, Ok(()) is returned.
StreamEnd ==
    /\ pc = "read"
    /\ pc' = "sleep"
    /\ line' = None
    /\ Step("eof", None, << >>, "none", Some("Ok"))
    /\ UNCHANGED << env_vars, activewindow, monitor_id, fails, waits >>

\* event_loop, lines 138-149: handle the line read.
HandleLine ==
    /\ pc = "handle"
    /\ pc' = "read"
    /\ LET e == LineEffect(line[1], monitor_id[1], activewindow)
       IN Step("handle", activewindow, e.send, e.query, None)
    /\ UNCHANGED << env_vars, activewindow, monitor_id, line, fails, waits >>

\* watch_fullscreen, lines 38-42: log the error if any, sleep 2 s.
Sleep ==
    /\ pc = "sleep"
    /\ pc' = "reseed"
    /\ Step("sleep", None, << >>, "none", None)
    /\ UNCHANGED << env_vars, activewindow, monitor_id, line, fails, waits >>

\* Mutant of Reseed: the value sent last is sent again, without a probe.
Reseed_Stale ==
    /\ pc = "reseed"
    /\ pc' = "resolve"
    /\ Step("reseed", activewindow,
            IF sent = << >> THEN << Visible >> ELSE << sent[Len(sent)] >>,
            "none", None)
    /\ UNCHANGED << env_vars, activewindow, monitor_id, line, fails, waits >>

\* Mutant of Reseed: after the re-seed the loop streams again with the id it
\* has, without resolving the monitor anew.
Reseed_KeepsId ==
    /\ pc = "reseed"
    /\ pc' = "event_loop"
    /\ Step("reseed", activewindow,
            << VisibilityForMonitor(monitor_id[1], activewindow) >>,
            "activewindow", None)
    /\ UNCHANGED << env_vars, activewindow, monitor_id, line, fails, waits >>

\* watch_fullscreen, line 43: send the state again, then loop.
Reseed ==
    /\ pc = "reseed"
    /\ pc' = "resolve"
    /\ Step("reseed", activewindow,
            << VisibilityForMonitor(monitor_id[1], activewindow) >>,
            "activewindow", None)
    /\ UNCHANGED << env_vars, activewindow, monitor_id, line, fails, waits >>

\* The window manager: the active window changes, or hyprctl starts or
\* stops answering.
WindowManager ==
    /\ \E r \in AwResponses \ {activewindow} : activewindow' = r
    /\ UNCHANGED << env_vars, pc, monitor_id, line, loop_result, sent, emitted,
                    queried, fails, waits, since_end, scenario, queue,
                    received >>

\* What the consumer's steps leave alone.
watcher_vars ==
    << target_monitor, env_sig, env_runtime, activewindow, pc, monitor_id, line,
       loop_result, sent, emitted, queried, fails, waits, since_end, scenario,
       inventory >>

\* The consumer receives the oldest value waiting in the channel.
ConsumerRecv ==
    /\ receiver = "alive"
    /\ queue # << >>
    /\ received' = Receive(received, Head(queue))
    /\ queue' = Tail(queue)
    /\ UNCHANGED << watcher_vars, receiver >>

\* The consumer is torn down: the Receiver is dropped, and with it the
\* values still waiting.
ConsumerDrop ==
    /\ receiver = "alive"
    /\ receiver' = "dropped"
    /\ queue' = << >>
    /\ UNCHANGED << watcher_vars, received >>

\* The steps of the consumer of the channel.
Consumer == ConsumerRecv \/ ConsumerDrop

\* The steps of the watcher thread.
Watcher ==
    \/ Resolve
    \/ RetrySleep
    \/ Seed
    \/ EventLoopConnect
    \/ ReadLine
    \/ ReadError
    \/ StreamEnd
    \/ HandleLine
    \/ Sleep
    \/ Reseed

Next == Watcher \/ WindowManager

Spec == Init /\ [][Next]_vars

\* The watcher's steps all happen: a sleep ends, a hyprctl call returns, and
\* a send on the unbounded channel does not block.
FairSpec == Spec /\ WF_vars(Watcher)

\* The watcher together with the consumer of its channel, which receives
\* when it likes and may be torn down.
ChannelNext == Next \/ Consumer

ChannelSpec == Init /\ [][ChannelNext]_vars

\* The resolver alone, against an inventory that stays as it is: each
\* configured name with each answer of `hyprctl monitors -j`.
ResolverInit ==
    /\ target_monitor \in Names
    /\ inventory \in InvResponses
    /\ env_sig \in SigValues
    /\ env_runtime \in RuntimeValues
    /\ activewindow = AwFailed("launch_fail")
    /\ pc = "resolve"
    /\ monitor_id = None
    /\ line = None
    /\ loop_result = None
    /\ sent = << >>
    /\ emitted = << >>
    /\ queried = "none"
    /\ fails = 0
    /\ waits = 0
    /\ since_end = << >>
    /\ scenario = [stage |-> 0, out |-> << >>]
    /\ receiver = "alive"
    /\ queue = << >>
    /\ received = None

\* watch_fullscreen, line 27, with the inventory the state holds.
ResolveInventory ==
    /\ pc = "resolve"
    /\ inventory # None
    /\ LET r == GetMonitorId(target_monitor, inventory)
       IN /\ (r = None => fails < MaxFails)
          /\ IF r = None
             THEN /\ pc' = "retry_sleep"
                  /\ monitor_id' = monitor_id
                  /\ fails' = fails + 1
                  /\ waits' = waits
             ELSE /\ pc' = "seed"
                  /\ monitor_id' = r
                  /\ fails' = 0
                  /\ waits' = 0
          /\ Step("resolve", << target_monitor, r >>, << >>, "monitors", None)
    /\ UNCHANGED << env_vars, activewindow, line >>

ResolverNext == ResolveInventory \/ RetrySleep

ResolverSpec == ResolverInit /\ [][ResolverNext]_vars

(* ------------------------------ claims -------------------------------- *)

\* The watcher handles line l in this step.
Handles(l) == pc = "handle" /\ line = Some(l) /\ pc' # pc

\* This step sends nothing.
SendsNothing == emitted' = << >> /\ sent' = sent

\* This step sends exactly the one value v.
SendsOnly(v) == emitted' = << v >> /\ sent' = Push(sent, v)

\* The window manager's answer says that the focused window is fullscreen
\* on monitor target_id.
TargetHostsFullscreen(target_id, resp) ==
    /\ resp.status = "ok"
    /\ resp.fullscreen # None
    /\ resp.fullscreen[1] > 0
    /\ resp.monitor = Some(target_id)

\* The event names the stream reader acts on.
Significant(l) ==
    \E p \in {"fullscreen>>", "activewindow>>", "focusedmon>>"} :
        \E k \in 0..Len(l) : SubSeq(l, 1, k) = p

\* C1: whenever the watcher has made a successful probe or processed a
\* fullscreen/activewindow/focusedmon event, the value last sent on the
\* channel (if any) is Hidden exactly if the target monitor hosts a
\* fullscreen window at that moment.  (Stated for the moments at which the
\* window manager names the focused window's monitor.)
C1_LastSentIsTruth ==
    [][ ( /\ activewindow.status = "ok"
          /\ activewindow.monitor # None
          /\ \/ pc = "seed" /\ pc' = "event_loop"
             \/ pc = "reseed" /\ pc' = "resolve"
             \/ \E l \in Lines : Significant(l) /\ Handles(l)
          /\ sent' # << >> )
        => ( sent'[Len(sent')] = Hidden
             <=> TargetHostsFullscreen(monitor_id[1], activewindow) ) ]_vars

\* C2: visibility_for_monitor(target), applied to a successful probe result
\* that carries a monitor id, is Hidden exactly if the fullscreen flag is an
\* integer > 0 and the monitor is the target, and Visible otherwise.
C2_VisibilityForMonitor ==
    [][ ( /\ activewindow.status = "ok"
          /\ activewindow.monitor # None
          /\ \/ pc = "seed" /\ pc' = "event_loop"
             \/ pc = "reseed" /\ pc' = "resolve"
             \/ \E l \in Lines :
                  /\ Handles(l)
                  /\ \E k \in 0..Len(l) :
                       SubSeq(l, 1, k) \in {"activewindow>>", "focusedmon>>"} )
        => IF /\ activewindow.fullscreen # None
              /\ activewindow.fullscreen[1] > 0
              /\ activewindow.monitor[1] = monitor_id[1]
           THEN SendsOnly(Hidden)
           ELSE SendsOnly(Visible) ]_vars

\* C2 witness: the seed has just sent Hidden for a fullscreen window on the
\* target monitor.
C2_Witness ==
    /\ pc = "event_loop"
    /\ emitted = << Hidden >>
    /\ activewindow.status = "ok"
    /\ activewindow.fullscreen = Some(2)
    /\ activewindow.monitor = monitor_id

\* C3: once the watcher has gone through the end-to-end scenario, the
\* channel has carried exactly Visible, Hidden, Visible since its start; and
\* on the way exactly the prefixes of that sequence.
C3_EndToEnd ==
    /\ scenario.stage \in 2..4 => scenario.out = << Visible >>
    /\ scenario.stage \in 5..6 => scenario.out = << Visible, Hidden >>
    /\ scenario.stage = 7 => scenario.out = << Visible, Hidden, Visible >>

\* C3 witness: the scenario has been gone through to its end.
C3_Witness == scenario.stage = 7 /\ target_monitor = "DP-1" /\ monitor_id = Some(2)

\* C4: handling "fullscreen>>1" queries the active window, and sends Hidden
\* if its monitor is the target, and otherwise nothing.
C4_FullscreenOn ==
    [][ Handles("fullscreen>>1")
        => /\ queried' = "activewindow"
           /\ IF /\ activewindow.status = "ok"
                 /\ activewindow.monitor = Some(monitor_id[1])
              THEN SendsOnly(Hidden)
              ELSE SendsNothing ]_vars

\* C4 witness: "fullscreen>>1" has been handled while the focused window was
\* on another monitor, and nothing was sent.
C4_Witness ==
    /\ pc = "read"
    /\ line = Some("fullscreen>>1")
    /\ emitted = << >>
    /\ queried = "activewindow"
    /\ activewindow.status = "ok"
    /\ activewindow.monitor # None
    /\ activewindow.monitor # monitor_id

\* C5: handling "fullscreen>>0" sends exactly one Visible and issues no
\* query, whatever the target and the window state are.
C5_FullscreenOff ==
    [][ Handles("fullscreen>>0") => SendsOnly(Visible) /\ queried' = "none" ]_vars

\* C5 witness: "fullscreen>>0" has been handled, and Visible sent, while the
\* target monitor hosts a fullscreen window.
C5_Witness ==
    /\ pc = "read"
    /\ line = Some("fullscreen>>0")
    /\ emitted = << Visible >>
    /\ queried = "none"
    /\ TargetHostsFullscreen(monitor_id[1], activewindow)

\* The line begins with "activewindow>>" or "focusedmon>>".
IsRefresh(l) ==
    \E k \in 0..Len(l) : SubSeq(l, 1, k) \in {"activewindow>>", "focusedmon>>"}

\* C6: handling a line that begins with "activewindow>>" or "focusedmon>>"
\* issues one active-window query and sends exactly one value, the
\* visibility of the target for that query's answer, whatever the payload
\* and the values sent before are.
C6_Refresh ==
    [][ \A l \in Lines :
          (Handles(l) /\ IsRefresh(l))
          => /\ queried' = "activewindow"
             /\ SendsOnly(VisibilityForMonitor(monitor_id[1], activewindow)) ]_vars

\* C6 witness: a "focusedmon>>" line whose payload ends in 1 has been
\* handled while the focused window was not fullscreen, and Visible was sent
\* after a Hidden.
C6_Witness ==
    /\ pc = "read"
    /\ line = Some("focusedmon>>DP-1,1")
    /\ emitted = << Visible >>
    /\ Len(sent) >= 2
    /\ sent[Len(sent) - 1] = Hidden
    /\ activewindow = AwOk(Some(0), monitor_id)

\* C7: handling a line that begins with none of "fullscreen>>",
\* "activewindow>>", "focusedmon>>" sends nothing, issues no query, and goes
\* on to read the next line.
C7_Unrecognized ==
    [][ \A l \in Lines :
          (Handles(l) /\ ~Significant(l))
          => SendsNothing /\ queried' = "none" /\ pc' = "read" ]_vars

\* C7 witness: "workspace>>3" has been handled, nothing was sent, and the
\* reader is reading on.
C7_Witness ==
    /\ pc = "read"
    /\ line = Some("workspace>>3")
    /\ emitted = << >>
    /\ queried = "none"

\* C8: while resolutions keep failing, every failure has been followed by
\* exactly one sleep and a new attempt (N failures, N sleeps on arriving at
\* the next attempt), and no step from the first failure on sends anything.
C8_ResolutionRetry ==
    /\ [](pc = "resolve" => waits = fails)
    /\ [](pc = "retry_sleep" => fails = waits + 1)
    /\ [](fails > 0 => pc \in {"resolve", "retry_sleep"} /\ emitted = << >>)
    /\ [][pc = "retry_sleep" /\ pc' # pc => pc' = "resolve"]_vars
    /\ [][fails' > 0 => sent' = sent]_vars

\* C8 witness: two resolutions in a row have failed, two sleeps were made,
\* and the third attempt is due.
C8_Witness == pc = "resolve" /\ fails = 2 /\ waits = 2 /\ emitted = << >>

\* C9: after event_loop has returned, the first value sent is the re-seed's,
\* made after the sleep and before the resolution that follows, and the
\* second is the next seed's, made after that resolution succeeded; each is
\* the visibility, for the watcher's id at that time, of the window state at
\* the moment of the send, and the id changes only by a successful
\* resolution.
C9_RecoveryConvergence ==
    /\ [](loop_result # None /\ since_end = << >> => pc \in {"sleep", "reseed"})
    /\ [](Len(since_end) >= 1 => since_end[1] = "reseed")
    /\ [](Len(since_end) = 1 => pc \in {"resolve", "retry_sleep", "seed"})
    /\ [](Len(since_end) = 2 => since_end[2] = "seed")
    /\ [][pc = "sleep" /\ pc' # pc => pc' = "reseed" /\ SendsNothing]_vars
    /\ [][pc = "reseed" /\ pc' # pc
          => /\ pc' = "resolve"
             /\ monitor_id' = monitor_id
             /\ queried' = "activewindow"
             /\ SendsOnly(VisibilityForMonitor(monitor_id[1], activewindow))]_vars
    /\ [][pc = "seed" /\ pc' # pc
          => /\ monitor_id' = monitor_id
             /\ queried' = "activewindow"
             /\ SendsOnly(VisibilityForMonitor(monitor_id[1], activewindow))]_vars
    /\ [][monitor_id' # monitor_id => pc = "resolve" /\ pc' = "seed"]_vars

\* C9 witness: event_loop returned, the re-seed sent Hidden and the seed
\* after the next resolution, which gave another id, sent Visible.
C9_Witness ==
    /\ since_end = << "reseed", "seed" >>
    /\ pc = "event_loop"
    /\ loop_result = Some("Ok")
    /\ Len(sent) >= 2
    /\ SubSeq(sent, Len(sent) - 1, Len(sent)) = << Hidden, Visible >>

\* The places of the watcher thread's loop.
Places ==
    {"resolve", "retry_sleep", "seed", "event_loop", "read", "handle", "sleep",
     "reseed"}

\* C10: the watcher thread always is at a place of its loop and always has a
\* next step, whatever the outcomes so far were; and after a failed
\* resolution and after every return of event_loop it comes back to resolving.
C10_NeverReturns ==
    /\ [](pc \in Places /\ ENABLED Watcher)
    /\ (pc \in {"retry_sleep", "sleep", "reseed"} ~> pc = "resolve")

\* C10 witness: event_loop has returned an error, the re-seed was sent and
\* the watcher is resolving again.
C10_Witness ==
    /\ pc = "resolve"
    /\ loop_result = Some("Err: read")
    /\ since_end = << "reseed" >>

\* What a step of the watcher thread at place pc does, whoever listens:
\* the place it goes to, the hyprctl query it issues, the values it passes
\* to sender.send.
LoopStep ==
    LET vis == VisibilityForMonitor(monitor_id[1], activewindow)
    IN CASE pc = "resolve" ->
              /\ pc' \in {"seed", "retry_sleep"}
              /\ queried' = "monitors" /\ emitted' = << >>
         [] pc = "retry_sleep" ->
              pc' = "resolve" /\ queried' = "none" /\ emitted' = << >>
         [] pc = "seed" ->
              pc' = "event_loop" /\ queried' = "activewindow" /\ emitted' = << vis >>
         [] pc = "event_loop" ->
              pc' \in {"read", "sleep"} /\ emitted' = << >>
         [] pc = "read" ->
              pc' \in {"handle", "sleep"} /\ queried' = "none" /\ emitted' = << >>
         [] pc = "handle" ->
              /\ pc' = "read"
              /\ queried' = LineEffect(line[1], monitor_id[1], activewindow).query
              /\ emitted' = LineEffect(line[1], monitor_id[1], activewindow).send
         [] pc = "sleep" ->
              pc' = "reseed" /\ queried' = "none" /\ emitted' = << >>
         [] pc = "reseed" ->
              pc' = "resolve" /\ queried' = "activewindow" /\ emitted' = << vis >>
         [] OTHER -> FALSE

\* C11: with the Receiver dropped every send is lost at once (nothing waits
\* in the channel, the consumer's record stays, a step passes a value to
\* send at most once), the drop itself changes nothing of the watcher, and
\* the watcher keeps stepping: each step goes where the loop goes, issues
\* the query and passes to send the values that the step at that place
\* does with a live consumer.
C11_DeliveryFailure ==
    /\ [](receiver = "dropped" => queue = << >> /\ ENABLED Watcher)
    /\ [][receiver' # receiver => UNCHANGED watcher_vars]_vars
    /\ [][pc' # pc => LoopStep /\ Len(emitted') <= 1]_vars
    /\ [][receiver = "dropped" /\ pc' # pc
          => queue' = << >> /\ received' = received]_vars

\* C11 witness: the consumer was torn down before it received anything, two
\* values were passed to send since, and the watcher is reading the stream.
C11_Witness ==
    /\ receiver = "dropped"
    /\ received = None
    /\ Len(sent) = 2
    /\ emitted = << Visible >>
    /\ pc = "read"

\* The last k elements of s.
Suffix(s, k) == SubSeq(s, Len(s) - k + 1, Len(s))

IsFullscreen(l) == \E k \in 0..Len(l) : SubSeq(l, 1, k) = "fullscreen>>"

\* The line's last character is c.
LastCharIs(l, c) == Len(l) >= 1 /\ SubSeq(l, Len(l), Len(l)) = c

\* The step sends visibility_for_monitor of the watcher's id.
SendsVisibility ==
    \/ pc = "seed" /\ pc' = "event_loop"
    \/ pc = "reseed" /\ pc' = "resolve"
    \/ \E l \in Lines : Handles(l) /\ IsRefresh(l)

\* C13: when the active-window query cannot be launched, exits non-zero or
\* answers undecodably, a step that sends visibility_for_monitor sends
\* Visible whatever the target id is, the handling of a "fullscreen>>" line
\* ending in 1 sends nothing, and no step sends Hidden.
C13_ProbeFailure ==
    [][ (activewindow.status \in Failures /\ pc' # pc)
        => /\ SendsVisibility => SendsOnly(Visible)
           /\ (\E l \in Lines : Handles(l) /\ IsFullscreen(l) /\ LastCharIs(l, "1"))
              => SendsNothing /\ queried' = "activewindow"
           /\ Hidden \notin {emitted'[i] : i \in 1..Len(emitted')} ]_vars

\* C13 witness: after a Hidden, a "focusedmon>>" line was handled while
\* hyprctl exited non-zero, and Visible was sent.
C13_Witness ==
    /\ pc = "read"
    /\ line = Some("focusedmon>>DP-1,1")
    /\ activewindow = AwFailed("exit_nonzero")
    /\ queried = "activewindow"
    /\ sent = << Hidden, Visible >>
    /\ emitted = << Visible >>

\* The records of an answered inventory whose name is exactly name.
Named(name, resp) ==
    {k \in 1..Len(resp.monitors) : resp.monitors[k].name = Some(name)}

\* C14: a resolution against inventory answer v for the configured name n
\* yields the id of the first record of v named exactly n; it is unresolved
\* when v is a failure to launch, a non-zero exit or undecodable output, or
\* when no record is named n; an id it yields is never that of a record
\* with another name that precedes every record named n.
C14_MonitorResolver ==
    [][ (pc = "resolve" /\ pc' # pc)
        => LET r == IF pc' = "seed" THEN monitor_id' ELSE None
               hits == Named(target_monitor, inventory)
           IN /\ pc' \in {"seed", "retry_sleep"}
              /\ inventory.status \in Failures => r = None
              /\ (inventory.status = "ok" /\ hits = {}) => r = None
              /\ (inventory.status = "ok" /\ hits # {})
                 => \E k \in hits :
                       /\ \A j \in hits : k <= j
                       /\ r = inventory.monitors[k].id
              /\ r # None
                 => \E k \in hits : r = inventory.monitors[k].id ]_vars

\* C14 witness: "DP-1" was resolved to 2 against an inventory that lists
\* "DP-10" with id 1 ahead of "DP-1" with id 2.
C14_Witness ==
    /\ pc = "seed"
    /\ target_monitor = "DP-1"
    /\ inventory = InvOk(<< [name |-> Some("DP-10"), id |-> Some(1)],
                            [name |-> Some("DP-1"), id |-> Some(2)] >>)
    /\ monitor_id = Some(2)

\* One of the two environment variables of the socket path is not set.
EnvAbsent == env_sig = None \/ env_runtime = None

\* C15: with HYPRLAND_INSTANCE_SIGNATURE or XDG_RUNTIME_DIR not set,
\* event_loop returns the error "Could not find Hyprland socket" without
\* connecting and the loop goes on to its sleep; the watcher never holds or
\* handles a line; the seed before and the re-seed after are each sent.
C15_StreamSkipped ==
    /\ [](EnvAbsent => pc \notin {"read", "handle"} /\ line = None
                       /\ queried # "connect")
    /\ [][ (EnvAbsent /\ pc = "event_loop" /\ pc' # pc)
           => /\ pc' = "sleep"
              /\ queried' = "none"
              /\ SendsNothing
              /\ line' = None
              /\ loop_result' = Some("Err: Could not find Hyprland socket") ]_vars
    /\ [][ (EnvAbsent /\ pc' # pc)
           => /\ pc = "seed" => pc' = "event_loop" /\ Len(emitted') = 1
              /\ pc = "sleep" => pc' = "reseed" /\ SendsNothing
              /\ pc = "reseed" => pc' = "resolve" /\ Len(emitted') = 1 ]_vars

\* C15 witness: XDG_RUNTIME_DIR is not set; event_loop returned the error
\* and the re-seed after the sleep was sent.
C15_Witness ==
    /\ env_sig # None
    /\ env_runtime = None
    /\ pc = "resolve"
    /\ loop_result = Some("Err: Could not find Hyprland socket")
    /\ since_end = << "reseed" >>
    /\ Len(sent) = 2
    /\ Len(emitted) = 1

\* The places a step of the watcher at place p may go to.
After(p) ==
    CASE p = "resolve" -> {"seed", "retry_sleep"}
      [] p = "retry_sleep" -> {"resolve"}
      [] p = "seed" -> {"event_loop"}
      [] p = "event_loop" -> {"read", "sleep"}
      [] p = "read" -> {"handle", "sleep"}
      [] p = "handle" -> {"read"}
      [] p = "sleep" -> {"reseed"}
      [] p = "reseed" -> {"resolve"}
      [] OTHER -> {}

\* C16: the watcher's steps follow the cycle resolution, seed, streaming,
\* sleep, re-seed, resolution; the seed and the re-seed each send exactly one
\* value, computed for the loop's id, and the seed goes on to event_loop
\* whatever the probe answers and whether or not anyone listens; resolution,
\* the sleeps and the connect send nothing; the id changes only in a
\* successful resolution, seeding is entered only from one, and from the
\* seed to the re-seed the id is set and stays.
C16_CycleOrder ==
    /\ [][ pc' # pc
           => /\ pc' \in After(pc)
              /\ pc \in {"seed", "reseed"}
                 => emitted' = << VisibilityForMonitor(monitor_id[1], activewindow) >>
              /\ pc \in {"resolve", "retry_sleep", "event_loop", "read", "sleep"}
                 => emitted' = << >>
              /\ pc' = "seed" => pc = "resolve" /\ monitor_id' # None
              /\ pc' = "retry_sleep" => monitor_id' = monitor_id ]_vars
    /\ [][ monitor_id' # monitor_id => pc = "resolve" /\ pc' = "seed" ]_vars
    /\ [](pc = "seed" => ENABLED (pc' = "event_loop" /\ Seed))
    /\ [](pc \in {"seed", "event_loop", "read", "handle", "sleep", "reseed"}
          => monitor_id # None)

\* C16 witness: a second cycle: after the stream ended the re-seed was sent,
\* the monitor was resolved again, to 2, and the seed of the new cycle was
\* sent.
C16_Witness ==
    /\ pc = "event_loop"
    /\ loop_result = Some("Ok")
    /\ since_end = << "reseed", "seed" >>
    /\ monitor_id = Some(2)
    /\ Len(emitted) = 1

\* The visibility that the window manager's present answer calls for on the
\* watcher's monitor.
TrueVisibility ==
    IF TargetHostsFullscreen(monitor_id[1], activewindow) THEN Hidden ELSE Visible

\* A step of a stable environment: the window state stays, the resolution
\* does not fail or yield another id, no line arrives.
StableStep ==
    /\ activewindow' = activewindow
    /\ monitor_id' = monitor_id
    /\ pc' \notin {"handle", "retry_sleep"}

\* C17: if from some moment on the environment is stable (the active-window
\* query keeps answering, with the same window state; resolutions succeed
\* with the same id; no line is handled), then from some moment on the value
\* last sent is the visibility that this window state calls for on the
\* resolved monitor.
C17_Convergence ==
    (<>[][StableStep]_vars /\ <>[](activewindow.status = "ok"))
    => <>[](sent # << >> /\ sent[Len(sent)] = TrueVisibility)

\* C18: a step of the watcher that sends Hidden has queried the active
\* window in that step, and the answer reports the focused window fullscreen
\* and on the watcher's monitor.  (Stated for the moments at which the
\* window manager names the focused window's monitor.)
C18_HiddenJustified ==
    [][ ( /\ pc' # pc
          /\ \E i \in 1..Len(emitted') : emitted'[i] = Hidden
          /\ activewindow.status = "ok" => activewindow.monitor # None )
        => /\ queried' = "activewindow"
           /\ TargetHostsFullscreen(monitor_id[1], activewindow) ]_vars

\* C19: when the active-window query answers without an integer monitor
\* field, a step that sends visibility_for_monitor sends Visible, for every
\* id the watcher may hold and whatever the fullscreen flag is.
C19_NoMonitorField ==
    [][ ( /\ activewindow.status = "ok"
          /\ activewindow.monitor = None
          /\ SendsVisibility )
        => SendsOnly(Visible) ]_vars

\* C20: of a line that begins with "fullscreen>>" only the last character
\* counts.  If it is 1 the active window is queried, and Hidden is sent if
\* the answer names the watcher's monitor and nothing is sent otherwise.  If
\* it is anything else, or the payload is empty, exactly one Visible is sent
\* and nothing is queried.
C20_LastCharacter ==
    [][ \A l \in Lines :
          (Handles(l) /\ IsFullscreen(l))
          => IF LastCharIs(l, "1")
             THEN /\ queried' = "activewindow"
                  /\ IF /\ activewindow.status = "ok"
                        /\ activewindow.monitor = Some(monitor_id[1])
                     THEN SendsOnly(Hidden)
                     ELSE SendsNothing
             ELSE /\ queried' = "none"
                  /\ SendsOnly(Visible) ]_vars

\* C20 witness: "fullscreen>>01" has been handled with the focused window
\* on the watcher's monitor, and Hidden was sent after a Visible.
C20_Witness ==
    /\ pc = "read"
    /\ line = Some("fullscreen>>01")
    /\ queried = "activewindow"
    /\ activewindow.status = "ok"
    /\ activewindow.monitor = monitor_id
    /\ sent = << Visible, Hidden >>
    /\ emitted = << Hidden >>

=============================================================================
